---- MODULE Spec2Model ----
(***************************************************************************)
(* Model of cv_checker (src/main.py): module initialisation from the       *)
(* environment, the page routes, create_checkout and the analyze pipeline  *)
(* (extract_text -> prompt -> completion -> markdown / score -> page).     *)
(*                                                                         *)
(* Strings the code inspects character by character (file names, the       *)
(* completion text) are sequences of one-character strings; uploaded       *)
(* bytes are sequences of integers 0..255; extracted text is a sequence    *)
(* of code points.                                                         *)
(***************************************************************************)
EXTENDS Integers, Sequences, FiniteSets, TLC

VARIABLES
    env,            \* the process environment after load_dotenv()
    boot,           \* position of module initialisation
    OPENAI_KEY, STRIPE_PUBLIC, STRIPE_SECRET, BASE_URL,   \* module globals
    client,         \* the OpenAI client object
    stripe_api_key, \* stripe.api_key
    sessions,       \* checkout sessions the payment provider has created
    paid,           \* the ?paid=true query flag of the last GET /
    lastPage,       \* response of the last page route
    checkoutReq,    \* arguments of the last stripe.checkout.Session.create
    checkoutResp,   \* response of the last POST /create_checkout
    pc,             \* position of the POST /analyze request in flight
    file,           \* its UploadFile
    text,           \* analyze: text
    prompt,         \* analyze: prompt
    output_raw,     \* analyze: output_raw
    output_html,    \* analyze: output_html
    score,          \* analyze: score
    response,       \* analyze: the response sent
    steps,          \* pipeline steps the request has run, in order
    calls           \* client.chat.completions.create calls of the request

vars == <<env, boot, OPENAI_KEY, STRIPE_PUBLIC, STRIPE_SECRET, BASE_URL, client,
          stripe_api_key, sessions, paid, lastPage, checkoutReq, checkoutResp,
          pc, file, text, prompt, output_raw, output_html, score, response,
          steps, calls>>

bootVars == <<env, boot, OPENAI_KEY, STRIPE_PUBLIC, STRIPE_SECRET, BASE_URL,
              client, stripe_api_key>>
payVars == <<sessions, paid, lastPage, checkoutReq, checkoutResp>>
reqVars == <<pc, file, text, prompt, output_raw, output_html, score, response,
             steps, calls>>

----------------------------------------------------------------------------
(* Bounds of the model *)

\* checkout sessions created in one run
MaxSessions == 2
\* pieces a completion text is made of
MaxChunks == 5
\* bytes of a raw upload
MaxBytes == 3
\* pages of a PDF, paragraphs of a document
MaxPages == 2
\* characters of a page's or a paragraph's text
MaxTextLen == 2
\* characters of a file name before its suffix
MaxNameLen == 2

----------------------------------------------------------------------------
(* Python values *)

\* None and a present value v
None == [set |-> FALSE, val |-> <<>>]
Some(v) == [set |-> TRUE, val |-> v]

\* bool(x) of an optional string: None and "" are falsy
Truthy(o) == o.set /\ o.val # <<>>

RECURSIVE Join_Trailing(_, _)
Join_Trailing(sep, parts) ==
    IF Len(parts) = 0 THEN <<>>
    ELSE parts[1] \o sep \o Join_Trailing(sep, Tail(parts))

\* "sep".join(parts) for a list of sequences
RECURSIVE Join(_, _)
Join(sep, parts) ==
    IF Len(parts) = 0 THEN <<>>
    ELSE IF Len(parts) = 1 THEN parts[1]
    ELSE parts[1] \o sep \o Join(sep, Tail(parts))

\* s.startswith(p) / s.endswith(p)
StartsWith(s, p) == Len(s) >= Len(p) /\ SubSeq(s, 1, Len(p)) = p
EndsWith(s, p) == Len(s) >= Len(p) /\ SubSeq(s, Len(s) - Len(p) + 1, Len(s)) = p

\* all sequences over S of length at most n
SeqsUpTo(S, n) == UNION {[1..k -> S] : k \in 0..n}

----------------------------------------------------------------------------
(* Module initialisation, src/main.py lines 14-32 *)

DefaultBaseUrl == <<"http://127.0.0.1:8000">>

KeyValues == {None, Some(<<>>), Some(<<"k">>)}
Envs == [OPENAI_API_KEY : KeyValues,
         STRIPE_PUBLIC_KEY : {None, Some(<<"pk">>)},
         STRIPE_SECRET_KEY : KeyValues,
         BASE_URL : {None, Some(<<"https://cv.example">>)}]

\* os.getenv(name) and os.getenv(name, default)
getenv(name) == env[name]
getenvDefault(name, default) == IF env[name].set THEN env[name] ELSE Some(default)

NoClient == [made |-> FALSE, api_key |-> None]

\* lines 14-24: load_dotenv, app, the four os.getenv reads
LoadEnv ==
    /\ boot = "env"
    /\ OPENAI_KEY' = getenv("OPENAI_API_KEY")
    /\ STRIPE_PUBLIC' = getenv("STRIPE_PUBLIC_KEY")
    /\ STRIPE_SECRET' = getenv("STRIPE_SECRET_KEY")
    /\ BASE_URL' = getenvDefault("BASE_URL", DefaultBaseUrl)
    /\ boot' = "check_openai"
    /\ UNCHANGED <<env, client, stripe_api_key, payVars, reqVars>>

\* lines 26-27
CheckOpenAIKey ==
    /\ boot = "check_openai"
    /\ boot' = IF ~Truthy(OPENAI_KEY) THEN "failed" ELSE "check_stripe"
    /\ UNCHANGED <<env, OPENAI_KEY, STRIPE_PUBLIC, STRIPE_SECRET, BASE_URL,
                   client, stripe_api_key, payVars, reqVars>>

\* lines 28-29
CheckStripeKey_Skipped ==
    /\ boot = "check_stripe"
    /\ boot' = "client"
    /\ UNCHANGED <<env, OPENAI_KEY, STRIPE_PUBLIC, STRIPE_SECRET, BASE_URL,
                   client, stripe_api_key, payVars, reqVars>>

CheckStripeKey ==
    /\ boot = "check_stripe"
    /\ boot' = IF ~Truthy(STRIPE_SECRET) THEN "failed" ELSE "client"
    /\ UNCHANGED <<env, OPENAI_KEY, STRIPE_PUBLIC, STRIPE_SECRET, BASE_URL,
                   client, stripe_api_key, payVars, reqVars>>

\* line 31
MakeClient ==
    /\ boot = "client"
    /\ client' = [made |-> TRUE, api_key |-> OPENAI_KEY]
    /\ boot' = "stripe_key"
    /\ UNCHANGED <<env, OPENAI_KEY, STRIPE_PUBLIC, STRIPE_SECRET, BASE_URL,
                   stripe_api_key, payVars, reqVars>>

\* line 32, then the route definitions: the module is imported, the app serves
SetStripeKey ==
    /\ boot = "stripe_key"
    /\ stripe_api_key' = STRIPE_SECRET
    /\ boot' = "ready"
    /\ UNCHANGED <<env, OPENAI_KEY, STRIPE_PUBLIC, STRIPE_SECRET, BASE_URL,
                   client, payVars, reqVars>>

Startup == LoadEnv \/ CheckOpenAIKey \/ CheckStripeKey \/ MakeClient \/ SetStripeKey

----------------------------------------------------------------------------
(* allowed_file, src/main.py lines 35-39 *)

UpperCase == <<"A","B","C","D","E","F","G","H","I","J","K","L","M",
               "N","O","P","Q","R","S","T","U","V","W","X","Y","Z">>
LowerCase == <<"a","b","c","d","e","f","g","h","i","j","k","l","m",
               "n","o","p","q","r","s","t","u","v","w","x","y","z">>

\* str.lower() on one character and on a string
LowerChar(c) ==
    IF \E i \in 1..Len(UpperCase) : UpperCase[i] = c
    THEN LowerCase[CHOOSE i \in 1..Len(UpperCase) : UpperCase[i] = c]
    ELSE c
lower(s) == [i \in 1..Len(s) |-> LowerChar(s[i])]

ExtPdf == <<".", "p", "d", "f">>
ExtDocx == <<".", "d", "o", "c", "x">>
ExtTxt == <<".", "t", "x", "t">>
ALLOWED_EXTENSIONS == <<ExtPdf, ExtDocx, ExtTxt>>

allowed_file_NoLower(filename) ==
    \E i \in 1..Len(ALLOWED_EXTENSIONS) : EndsWith(filename, ALLOWED_EXTENSIONS[i])

allowed_file(filename) ==
    \E i \in 1..Len(ALLOWED_EXTENSIONS) :
        EndsWith(lower(filename), ALLOWED_EXTENSIONS[i])

----------------------------------------------------------------------------
(* bytes.decode("utf-8", errors), as called on line 51 *)

ReplacementChar == 65533

IsCont(x) == x \in 128..191

\* the range the second byte of a sequence led by b0 must lie in
SecondLo(b0) == IF b0 = 224 THEN 160 ELSE IF b0 = 240 THEN 144 ELSE 128
SecondHi(b0) == IF b0 = 237 THEN 159 ELSE IF b0 = 244 THEN 143 ELSE 191

\* number of bytes of the sequence a lead byte announces, 0 for no lead byte
SeqLen(b0) ==
    IF b0 < 128 THEN 1
    ELSE IF b0 \in 194..223 THEN 2
    ELSE IF b0 \in 224..239 THEN 3
    ELSE IF b0 \in 240..244 THEN 4
    ELSE 0

\* how many bytes from position i on form a valid prefix of one sequence
RECURSIVE ValidPrefix(_, _, _, _)
ValidPrefix(b, i, j, n) ==
    IF j > n \/ i + j - 1 > Len(b) THEN j - 1
    ELSE LET x == b[i + j - 1]
             ok == IF j = 1 THEN SeqLen(x) > 0
                   ELSE IF j = 2 THEN x \in SecondLo(b[i])..SecondHi(b[i])
                   ELSE IsCont(x)
         IN IF ok THEN ValidPrefix(b, i, j + 1, n) ELSE j - 1

\* the code point bytes i..i+n-1 encode
CodePoint(b, i, n) ==
    IF n = 1 THEN b[i]
    ELSE IF n = 2 THEN (b[i] - 192) * 64 + (b[i+1] - 128)
    ELSE IF n = 3 THEN (b[i] - 224) * 4096 + (b[i+1] - 128) * 64 + (b[i+2] - 128)
    ELSE (b[i] - 240) * 262144 + (b[i+1] - 128) * 4096
         + (b[i+2] - 128) * 64 + (b[i+3] - 128)

\* decode from position i on; errors is "strict", "ignore" or "replace"
RECURSIVE DecodeFrom(_, _, _)
DecodeFrom(b, i, errors) ==
    IF i > Len(b) THEN [raised |-> FALSE, value |-> <<>>]
    ELSE LET n == SeqLen(b[i])
             got == ValidPrefix(b, i, 1, n)
         IN IF n > 0 /\ got = n
            THEN LET rest == DecodeFrom(b, i + n, errors)
                 IN [raised |-> rest.raised,
                     value |-> <<CodePoint(b, i, n)>> \o rest.value]
            ELSE IF errors = "strict" THEN [raised |-> TRUE, value |-> <<>>]
            ELSE LET skip == IF got = 0 THEN 1 ELSE got
                     rest == DecodeFrom(b, i + skip, errors)
                 IN [raised |-> rest.raised,
                     value |-> (IF errors = "replace" THEN <<ReplacementChar>>
                                ELSE <<>>) \o rest.value]

decode(b, errors) ==
    LET r == DecodeFrom(b, 1, errors)
    IN IF r.raised THEN [raised |-> TRUE, value |-> <<>>] ELSE r

----------------------------------------------------------------------------
(* extract_text, src/main.py lines 42-51 *)

Newline == 10

\* An upload's content: its bytes, and what pdfplumber.open and docx.Document
\* make of them: None when the parser raises, else the pages' extract_text()
\* results (None or a text) resp. the paragraphs' texts.
Content(bytes, pdf, docx) == [bytes |-> bytes, pdf |-> pdf, docx |-> docx]
Upload(filename, content) == [filename |-> filename, content |-> content]

\* p.extract_text() or ""
PageText(p) == IF p.set /\ p.val # <<>> THEN p.val ELSE <<>>

decode_errors_Replace == "replace"

\* line 51: errors="ignore"
decode_errors == "ignore"

extract_text(f) ==
    LET name == lower(f.filename)
        c == f.content
    IN IF EndsWith(name, ExtPdf)
       THEN IF ~c.pdf.set THEN [raised |-> TRUE, value |-> <<>>]
            ELSE [raised |-> FALSE,
                  value |-> Join(<<Newline>>,
                                 [i \in 1..Len(c.pdf.val) |-> PageText(c.pdf.val[i])])]
       ELSE IF EndsWith(name, ExtDocx)
       THEN IF ~c.docx.set THEN [raised |-> TRUE, value |-> <<>>]
            ELSE [raised |-> FALSE, value |-> Join(<<Newline>>, c.docx.val)]
       ELSE decode(c.bytes, decode_errors)

----------------------------------------------------------------------------
(* re.search(r"(\d{1,3})\s*(?:/|von)?\s*100", output_raw), line 195 *)

Digits == <<"0", "1", "2", "3", "4", "5", "6", "7", "8", "9">>
Whitespace == {" ", "\n", "\t"}

IsDigit(c) == \E d \in 1..Len(Digits) : Digits[d] = c
DigitVal(c) == (CHOOSE d \in 1..Len(Digits) : Digits[d] = c) - 1

\* s[j:].startswith(lit), positions from 1
LitAt(s, j, lit) ==
    j + Len(lit) - 1 <= Len(s) /\ SubSeq(s, j, j + Len(lit) - 1) = lit

\* length of the run of whitespace starting at j
RECURSIVE WsRun(_, _)
WsRun(s, j) == IF j <= Len(s) /\ s[j] \in Whitespace THEN 1 + WsRun(s, j + 1) ELSE 0

NoMatch == [ok |-> FALSE, start |-> 0, stop |-> 0, group1 |-> <<>>]

\* second \s* (greedy: w characters, then fewer), then the literal 100;
\* the position after the match, 0 for no match
RECURSIVE TryWs2(_, _, _)
TryWs2(s, j, w) ==
    IF LitAt(s, j + w, <<"1", "0", "0">>) THEN j + w + 3
    ELSE IF w = 0 THEN 0
    ELSE TryWs2(s, j, w - 1)

\* (?:/|von)? : the alternatives in order, then the empty match
TrySep(s, j) ==
    LET slash == IF LitAt(s, j, <<"/">>) THEN TryWs2(s, j + 1, WsRun(s, j + 1)) ELSE 0
        von == IF LitAt(s, j, <<"v", "o", "n">>)
               THEN TryWs2(s, j + 3, WsRun(s, j + 3)) ELSE 0
    IN IF slash # 0 THEN slash
       ELSE IF von # 0 THEN von
       ELSE TryWs2(s, j, WsRun(s, j))

\* first \s* (greedy), then the rest
RECURSIVE TryWs1(_, _, _)
TryWs1(s, j, w) ==
    LET r == TrySep(s, j + w)
    IN IF r # 0 THEN r
       ELSE IF w = 0 THEN 0
       ELSE TryWs1(s, j, w - 1)

\* (\d{1,3}) at position i: k digits (greedy: 3, then fewer), then the rest
RECURSIVE TryDigits(_, _, _)
TryDigits(s, i, k) ==
    IF k = 0 THEN NoMatch
    ELSE LET fits == i + k - 1 <= Len(s) /\ \A x \in i..(i + k - 1) : IsDigit(s[x])
             stop == IF fits THEN TryWs1(s, i + k, WsRun(s, i + k)) ELSE 0
         IN IF stop # 0
            THEN [ok |-> TRUE, start |-> i, stop |-> stop,
                  group1 |-> SubSeq(s, i, i + k - 1)]
            ELSE TryDigits(s, i, k - 1)

\* the scan over start positions
RECURSIVE SearchFrom(_, _)
SearchFrom(s, i) ==
    IF i > Len(s) THEN NoMatch
    ELSE LET m == TryDigits(s, i, 3)
         IN IF m.ok THEN m ELSE SearchFrom(s, i + 1)

re_search(s) == SearchFrom(s, 1)

\* int(digits)
RECURSIVE int(_)
int(d) ==
    IF Len(d) = 0 THEN 0
    ELSE 10 * int(SubSeq(d, 1, Len(d) - 1)) + DigitVal(d[Len(d)])

\* str.strip()
RECURSIVE lstrip(_)
lstrip(s) == IF Len(s) > 0 /\ s[1] \in Whitespace THEN lstrip(Tail(s)) ELSE s
RECURSIVE rstrip(_)
rstrip(s) ==
    IF Len(s) > 0 /\ s[Len(s)] \in Whitespace
    THEN rstrip(SubSeq(s, 1, Len(s) - 1)) ELSE s
strip(s) == rstrip(lstrip(s))

----------------------------------------------------------------------------
(* The score of analyze, src/main.py lines 195-198 and 206 *)

ScoreCap == 100

NoScore == [set |-> FALSE, val |-> 0]
SomeScore(n) == [set |-> TRUE, val |-> n]

\* line 196
score_parse(raw) ==
    LET score_match == re_search(raw)
    IN IF score_match.ok THEN SomeScore(int(score_match.group1)) ELSE NoScore

score_clamp_Off(sc) == sc

\* lines 197-198: "if score and score > 100"
score_clamp(sc) ==
    IF sc.set /\ sc.val # 0 /\ sc.val > ScoreCap THEN SomeScore(ScoreCap) ELSE sc

\* line 206: "score if score else '-'"
Dash == [dash |-> TRUE, val |-> 0]
score_shown(sc) ==
    IF sc.set /\ sc.val # 0 THEN [dash |-> FALSE, val |-> sc.val] ELSE Dash

\* lines 190-193: the rendering is the markdown package's
markdown_markdown(raw) ==
    [markdown |-> raw, extensions |-> <<"extra", "sane_lists", "nl2br", "smarty">>]

----------------------------------------------------------------------------
(* Page routes, src/main.py lines 54-67 *)

NoPage == [template |-> "", stripe_public |-> None]

\* GET / ; q is the request's ?paid=true query flag
index(q) ==
    /\ boot = "ready"
    /\ paid' = q
    /\ lastPage' = [template |-> "index.html", stripe_public |-> STRIPE_PUBLIC]
    /\ UNCHANGED <<bootVars, sessions, checkoutReq, checkoutResp, reqVars>>

impressum ==
    /\ boot = "ready"
    /\ lastPage' = [template |-> "impressum.html", stripe_public |-> None]
    /\ UNCHANGED <<bootVars, sessions, paid, checkoutReq, checkoutResp, reqVars>>

datenschutz ==
    /\ boot = "ready"
    /\ lastPage' = [template |-> "datenschutz.html", stripe_public |-> None]
    /\ UNCHANGED <<bootVars, sessions, paid, checkoutReq, checkoutResp, reqVars>>

----------------------------------------------------------------------------
(* create_checkout, src/main.py lines 70-86 *)

UnitAmount == 500
Quantity == 1
SeeOther == 303
ServerError == 500
Ok == 200

\* what stripe.checkout.Session.create does: raise, or return a session
ProviderReplies ==
    {[ok |-> FALSE, url |-> <<>>]} \cup
    {[ok |-> TRUE, url |-> <<"https://checkout.provider.example", id>>] :
        id \in {"/cs_a", "/cs_b"}}

NoCheckoutReq == [set |-> FALSE, args |-> <<>>, reply |-> [ok |-> FALSE, url |-> <<>>]]
NoCheckoutResp == [status |-> 0, location |-> <<>>]

success_url_Loopback == DefaultBaseUrl \o <<"/?paid=true">>

\* line 83
success_url == BASE_URL.val \o <<"/?paid=true">>
\* line 84
cancel_url == BASE_URL.val \o <<"/">>

\* lines 72-85: the arguments of Session.create
checkout_args ==
    [payment_method_types |-> <<"card">>,
     mode |-> "payment",
     line_items |-> <<[price_data |-> [currency |-> "eur",
                                       product_data |-> [name |-> "AI Bewerbungs-Check"],
                                       unit_amount |-> UnitAmount],
                       quantity |-> Quantity]>>,
     success_url |-> success_url,
     cancel_url |-> cancel_url]

create_checkout(reply) ==
    /\ boot = "ready"
    /\ reply.ok => sessions < MaxSessions
    /\ checkoutReq' = [set |-> TRUE, args |-> checkout_args, reply |-> reply]
    /\ sessions' = IF reply.ok THEN sessions + 1 ELSE sessions
    /\ checkoutResp' = IF reply.ok
                       THEN [status |-> SeeOther, location |-> reply.url]
                       ELSE [status |-> ServerError, location |-> <<>>]
    /\ UNCHANGED <<bootVars, paid, lastPage, reqVars>>

----------------------------------------------------------------------------
(* analyze, src/main.py lines 89-208 *)

NoFile == Upload(<<>>, Content(<<>>, None, None))
NoPrompt == [template |-> "", slot |-> <<>>]
NoHtml == [markdown |-> <<>>, extensions |-> <<>>]
NoResponse == [status |-> 0, template |-> "", filename |-> <<>>,
               output |-> NoHtml, score |-> Dash]
ErrorResponse == [status |-> ServerError, template |-> "", filename |-> <<>>,
                  output |-> NoHtml, score |-> Dash]

Running == pc \in {"extract", "prompt", "complete", "render"}

\* POST /analyze arrives with upload f
AnalyzeReceive_Paywalled(f) ==
    /\ boot = "ready"
    /\ ~Running
    /\ paid /\ sessions > 0
    /\ pc' = "extract"
    /\ file' = f
    /\ text' = <<>>
    /\ prompt' = NoPrompt
    /\ output_raw' = <<>>
    /\ output_html' = NoHtml
    /\ score' = NoScore
    /\ response' = NoResponse
    /\ steps' = <<>>
    /\ calls' = 0
    /\ UNCHANGED <<bootVars, payVars>>

AnalyzeReceive(f) ==
    /\ boot = "ready"
    /\ ~Running
    /\ pc' = "extract"
    /\ file' = f
    /\ text' = <<>>
    /\ prompt' = NoPrompt
    /\ output_raw' = <<>>
    /\ output_html' = NoHtml
    /\ score' = NoScore
    /\ response' = NoResponse
    /\ steps' = <<>>
    /\ calls' = 0
    /\ UNCHANGED <<bootVars, payVars>>

\* line 91
AnalyzeExtract ==
    /\ pc = "extract"
    /\ LET r == extract_text(file)
       IN /\ steps' = Append(steps, "extract")
          /\ pc' = IF r.raised THEN "error" ELSE "prompt"
          /\ text' = IF r.raised THEN text ELSE r.value
          /\ response' = IF r.raised THEN ErrorResponse ELSE response
    /\ UNCHANGED <<bootVars, payVars, file, prompt, output_raw, output_html,
                   score, calls>>

\* lines 93-180
AnalyzeBuildPrompt ==
    /\ pc = "prompt"
    /\ steps' = Append(steps, "prompt")
    /\ prompt' = [template |-> "hr_review_de", slot |-> text]
    /\ pc' = "complete"
    /\ UNCHANGED <<bootVars, payVars, file, text, output_raw, output_html,
                   score, response, calls>>

\* lines 182-187: the call, result.choices[0].message.content, .strip();
\* c is what the completion endpoint does: raise, or return a content
AnalyzeComplete_Retry(c) ==
    /\ pc = "complete"
    /\ steps' = Append(steps, "complete")
    /\ calls' = IF c.ok THEN calls + 1 ELSE calls + 2
    /\ pc' = IF c.ok /\ c.content.set THEN "render" ELSE "error"
    /\ output_raw' = IF c.ok /\ c.content.set THEN strip(c.content.val) ELSE output_raw
    /\ response' = IF c.ok /\ c.content.set THEN response ELSE ErrorResponse
    /\ UNCHANGED <<bootVars, payVars, file, text, prompt, output_html, score>>

AnalyzeComplete(c) ==
    /\ pc = "complete"
    /\ steps' = Append(steps, "complete")
    /\ calls' = calls + 1
    /\ pc' = IF c.ok /\ c.content.set THEN "render" ELSE "error"
    /\ output_raw' = IF c.ok /\ c.content.set THEN strip(c.content.val) ELSE output_raw
    /\ response' = IF c.ok /\ c.content.set THEN response ELSE ErrorResponse
    /\ UNCHANGED <<bootVars, payVars, file, text, prompt, output_html, score>>

\* lines 189-208
AnalyzeRender ==
    /\ pc = "render"
    /\ steps' = Append(steps, "render")
    /\ output_html' = markdown_markdown(output_raw)
    /\ score' = score_clamp(score_parse(output_raw))
    /\ response' = [status |-> Ok, template |-> "result.html",
                    filename |-> file.filename,
                    output |-> markdown_markdown(output_raw),
                    score |-> score_shown(score_clamp(score_parse(output_raw)))]
    /\ pc' = "done"
    /\ UNCHANGED <<bootVars, payVars, file, text, prompt, output_raw, calls>>

----------------------------------------------------------------------------
(* Inputs *)

\* concatenation of a sequence of sequences
RECURSIVE Concat(_)
Concat(ss) == IF Len(ss) = 0 THEN <<>> ELSE ss[1] \o Concat(Tail(ss))

\* bytes of raw uploads: ASCII, lead and continuation bytes, an invalid byte
ByteAlphabet == {65, 195, 169, 226, 130, 172, 237, 255}

PdfMagic == <<37, 80, 68, 70>>
ZipMagic == <<80, 75>>

\* texts of pages and paragraphs, over the letter a and the newline
Texts == SeqsUpTo({97, Newline}, MaxTextLen)
PageResults == {None} \cup {Some(t) : t \in Texts}

RawContents == {Content(b, None, None) : b \in SeqsUpTo(ByteAlphabet, MaxBytes)}
PdfContents == {Content(PdfMagic, Some(ps), None) : ps \in SeqsUpTo(PageResults, MaxPages)}
DocxContents == {Content(ZipMagic, None, Some(ps)) : ps \in SeqsUpTo(Texts, MaxPages)}

NamePdf == <<"c", "v", ".", "p", "d", "f">>
NamePdfUpper == <<"C", "V", ".", "P", "D", "F">>
NameDocx == <<"c", "v", ".", "d", "o", "c", "x">>
NameDocxMixed == <<"c", "v", ".", "D", "o", "c", "X">>
NameTxt == <<"c", "v", ".", "t", "x", "t">>
NameExe == <<"c", "v", ".", "e", "x", "e">>

SamplePdf == Content(PdfMagic, Some(<<Some(<<97>>), None, Some(<<98>>)>>), None)
SampleDocx == Content(ZipMagic, None, Some(<<<<97>>, <<98>>>>))
SampleRaw == Content(<<65, 255, 195, 169>>, None, None)

\* uploads of the request-level specification
Uploads ==
    {Upload(NamePdf, SamplePdf), Upload(NamePdfUpper, SampleRaw),
     Upload(NameDocx, SampleDocx), Upload(NameDocx, SamplePdf),
     Upload(NameTxt, SampleRaw), Upload(NameExe, SampleRaw)}

\* uploads of the extraction specification: every content under a few names
ExtractUploads ==
    {Upload(n, c) : n \in {NamePdf, NamePdfUpper, NameDocx, NameDocxMixed, NameTxt},
                    c \in RawContents \cup PdfContents \cup DocxContents}

\* uploads of the file-name specification: every name, with a content that
\* each branch of extract_text treats differently
StemChars == {"a", ".", "P", "x"}
Suffixes ==
    {<<>>, ExtPdf, ExtDocx, ExtTxt,
     <<".", "P", "D", "F">>, <<".", "P", "d", "f">>, <<".", "p", "d", "F">>,
     <<".", "D", "O", "C", "X">>, <<".", "d", "o", "c", "X">>,
     <<".", "T", "X", "T">>, <<".", "t", "X", "t">>,
     <<".", "e", "x", "e">>, <<".", "d", "o", "c">>, <<".", "p", "d">>,
     <<"p", "d", "f">>, <<"t", "x", "t">>, <<".", "p", "d", "f", "x">>,
     <<".", "p", "d", "f", ".">>, <<".", "p", "d", "f", " ">>,
     <<".", "t", "x", "t", ".", "p", "d", "f">>,
     <<".", "d", "o", "c", "x", ".", "t", "x", "t">>}
Names == {stem \o suffix : stem \in SeqsUpTo(StemChars, MaxNameLen), suffix \in Suffixes}
NameUploads == {Upload(n, SamplePdf) : n \in Names}

\* what the completion endpoint does
Reply(content) == [ok |-> TRUE, content |-> content]
ApiError == [ok |-> FALSE, content |-> None]

Example87 == <<"8", "7", "/", "1", "0", "0">>
Example150 == <<"1", "5", "0", " ", "v", "o", "n", " ", "1", "0", "0">>
Example0 == <<"0", "/", "1", "0", "0">>
ExampleNone == <<"g", "u", "t">>
ExampleProse ==
    <<"\n", "S", "c", "o", "r", "e", ":", " ", "8", "7", " ", "/", " ", "1", "0", "0",
      " ", "(", "1", "0", "0", ")", " ">>

CompletionReplies ==
    {ApiError, Reply(None), Reply(Some(Example87)), Reply(Some(Example150)),
     Reply(Some(Example0)), Reply(Some(ExampleNone))}

\* completion texts of the score specification: every text of up to MaxChunks
\* pieces, and the examples
Chunks == {<<"0">>, <<"1">>, <<"8">>, <<" ">>, <<"/">>, <<"x">>,
           <<"v", "o", "n">>, <<"1", "0", "0">>}
ScoreTexts ==
    {Concat(cs) : cs \in SeqsUpTo(Chunks, MaxChunks)} \cup
    {Example87, Example150, Example0, ExampleNone, ExampleProse}
ScoreReplies == {Reply(Some(t)) : t \in ScoreTexts}

----------------------------------------------------------------------------
(* Specifications *)

Idle ==
    /\ sessions = 0
    /\ paid = FALSE
    /\ lastPage = NoPage
    /\ checkoutReq = NoCheckoutReq
    /\ checkoutResp = NoCheckoutResp
    /\ pc = "idle"
    /\ file = NoFile
    /\ text = <<>>
    /\ prompt = NoPrompt
    /\ output_raw = <<>>
    /\ output_html = NoHtml
    /\ score = NoScore
    /\ response = NoResponse
    /\ steps = <<>>
    /\ calls = 0

\* the process starts: any environment, nothing initialised
Init ==
    /\ env \in Envs
    /\ boot = "env"
    /\ OPENAI_KEY = None
    /\ STRIPE_PUBLIC = None
    /\ STRIPE_SECRET = None
    /\ BASE_URL = None
    /\ client = NoClient
    /\ stripe_api_key = None
    /\ Idle

\* the process after a successful start, before its first request
ReadyEnv == [OPENAI_API_KEY |-> Some(<<"k">>), STRIPE_PUBLIC_KEY |-> Some(<<"pk">>),
             STRIPE_SECRET_KEY |-> Some(<<"k">>), BASE_URL |-> None]

Pipeline == AnalyzeExtract \/ AnalyzeBuildPrompt \/ AnalyzeRender

Next ==
    \/ Startup
    \/ \E q \in BOOLEAN : index(q)
    \/ impressum
    \/ datenschutz
    \/ \E reply \in ProviderReplies : create_checkout(reply)
    \/ \E f \in Uploads : AnalyzeReceive(f)
    \/ Pipeline
    \/ \E c \in CompletionReplies : AnalyzeComplete(c)

Spec == Init /\ [][Next]_vars

\* a request that has just arrived with upload f
Received(f) ==
    /\ sessions = 0
    /\ paid = FALSE
    /\ lastPage = NoPage
    /\ checkoutReq = NoCheckoutReq
    /\ checkoutResp = NoCheckoutResp
    /\ pc = "extract"
    /\ file = f
    /\ text = <<>>
    /\ prompt = NoPrompt
    /\ output_raw = <<>>
    /\ output_html = NoHtml
    /\ score = NoScore
    /\ response = NoResponse
    /\ steps = <<>>
    /\ calls = 0

Booted ==
    /\ env = ReadyEnv
    /\ boot = "ready"
    /\ OPENAI_KEY = ReadyEnv.OPENAI_API_KEY
    /\ STRIPE_PUBLIC = ReadyEnv.STRIPE_PUBLIC_KEY
    /\ STRIPE_SECRET = ReadyEnv.STRIPE_SECRET_KEY
    /\ BASE_URL = Some(DefaultBaseUrl)
    /\ client = [made |-> TRUE, api_key |-> ReadyEnv.OPENAI_API_KEY]
    /\ stripe_api_key = ReadyEnv.STRIPE_SECRET_KEY

InitReady == Booted /\ Idle

\* analyze on every completion text of ScoreTexts
NextScore ==
    \/ AnalyzeReceive(Upload(NameTxt, SampleRaw))
    \/ Pipeline
    \/ pc = "complete" /\ \E c \in ScoreReplies : AnalyzeComplete(c)

SpecScore == InitReady /\ [][NextScore]_vars

\* extract_text on every content
InitExtract == Booted /\ \E f \in ExtractUploads : Received(f)
NextExtract == AnalyzeExtract
SpecExtract == InitExtract /\ [][NextExtract]_vars

\* allowed_file and extract_text's dispatch on every name
InitNames == Booted /\ \E f \in NameUploads : Received(f)
NextNames == AnalyzeExtract
SpecNames == InitNames /\ [][NextNames]_vars

----------------------------------------------------------------------------
(* Vocabulary of the properties *)

Min(a, b) == IF a <= b THEN a ELSE b

DigitChars == {"0", "1", "2", "3", "4", "5", "6", "7", "8", "9"}
DigitOf == ("0" :> 0) @@ ("1" :> 1) @@ ("2" :> 2) @@ ("3" :> 3) @@ ("4" :> 4) @@
           ("5" :> 5) @@ ("6" :> 6) @@ ("7" :> 7) @@ ("8" :> 8) @@ ("9" :> 9)

\* s[a..b] is whitespace only (true of an empty range)
AllWs(s, a, b) == \A x \in a..b : s[x] \in Whitespace

\* the pattern matches s with its digit group at i..i+k-1: the digits, then
\* whitespace up to a, a separator of sepLen characters, whitespace up to c,
\* and 100 at c
MatchesAt(s, i, k) ==
    /\ i + k - 1 <= Len(s)
    /\ \A x \in i..(i + k - 1) : s[x] \in DigitChars
    /\ \E a \in (i + k)..(Len(s) + 1), sepLen \in {0, 1, 3} :
          /\ AllWs(s, i + k, a - 1)
          /\ a + sepLen <= Len(s) + 1
          /\ sepLen = 1 => s[a] = "/"
          /\ sepLen = 3 => (s[a] = "v" /\ s[a + 1] = "o" /\ s[a + 2] = "n")
          /\ \E c \in (a + sepLen)..(Len(s) - 2) :
                /\ AllWs(s, a + sepLen, c - 1)
                /\ s[c] = "1" /\ s[c + 1] = "0" /\ s[c + 2] = "0"

MatchStarts(s) == {i \in 1..Len(s) : \E k \in 1..3 : MatchesAt(s, i, k)}
HasMatch(s) == MatchStarts(s) # {}

\* the number k decimal digits at i denote
DigitsValue(s, i, k) ==
    IF k = 1 THEN DigitOf[s[i]]
    ELSE IF k = 2 THEN 10 * DigitOf[s[i]] + DigitOf[s[i + 1]]
    ELSE 100 * DigitOf[s[i]] + 10 * DigitOf[s[i + 1]] + DigitOf[s[i + 2]]

\* occurrences of x in s
Count(x, s) == Cardinality({i \in 1..Len(s) : s[i] = x})

RECURSIVE SumCount(_, _)
SumCount(x, parts) ==
    IF Len(parts) = 0 THEN 0 ELSE Count(x, parts[1]) + SumCount(x, Tail(parts))

\* where part i starts in the join of parts, counted from 0
RECURSIVE Offset(_, _)
Offset(parts, i) ==
    IF i = 1 THEN 0 ELSE Offset(parts, i - 1) + Len(parts[i - 1]) + 1

\* t is the parts in order, one newline between neighbours
JoinedInOrder(t, parts) ==
    LET n == Len(parts)
    IN IF n = 0 THEN t = <<>>
       ELSE /\ Len(t) = Offset(parts, n) + Len(parts[n])
            /\ \A i \in 1..n :
                  SubSeq(t, Offset(parts, i) + 1, Offset(parts, i) + Len(parts[i]))
                      = parts[i]
            /\ \A i \in 1..(n - 1) : t[Offset(parts, i) + Len(parts[i]) + 1] = 10

\* a is b with some elements left out
RECURSIVE IsSubseq(_, _)
IsSubseq(a, b) ==
    IF Len(a) = 0 THEN TRUE
    ELSE IF Len(b) = 0 THEN FALSE
    ELSE IF a[1] = b[1] THEN IsSubseq(Tail(a), Tail(b))
    ELSE IsSubseq(a, Tail(b))

\* the UTF-8 encoding of a sequence of code points
Utf8EncodeOne(cp) ==
    IF cp < 128 THEN <<cp>>
    ELSE IF cp < 2048 THEN <<192 + (cp \div 64), 128 + (cp % 64)>>
    ELSE IF cp < 65536
    THEN <<224 + (cp \div 4096), 128 + ((cp \div 64) % 64), 128 + (cp % 64)>>
    ELSE <<240 + (cp \div 262144), 128 + ((cp \div 4096) % 64),
           128 + ((cp \div 64) % 64), 128 + (cp % 64)>>
Utf8Encode(cps) == Concat([i \in 1..Len(cps) |-> Utf8EncodeOne(cps[i])])

\* the file name ends in ext, letters compared without case
SameLetter(c, d) ==
    \/ c = d
    \/ <<c, d>> \in {<<"P", "p">>, <<"D", "d">>, <<"F", "f">>, <<"O", "o">>,
                     <<"C", "c">>, <<"X", "x">>, <<"T", "t">>}
EndsIn(name, ext) ==
    /\ Len(name) >= Len(ext)
    /\ \A i \in 1..Len(ext) : SameLetter(name[Len(name) - Len(ext) + i], ext[i])

Extracted == Len(steps) >= 1 /\ steps[1] = "extract" /\ pc # "extract"

\* which branch of extract_text ran on SamplePdf, told by what it returned:
\* the page texts, a failure to open it as a document, or its decoded bytes
BranchSeen ==
    IF pc = "error" THEN "docx"
    ELSE IF text = PdfMagic THEN "text"
    ELSE "pdf"

PagesOf(f) == [i \in 1..Len(f.content.pdf.val) |->
                  IF f.content.pdf.val[i].set THEN f.content.pdf.val[i].val ELSE <<>>]

----------------------------------------------------------------------------
(* Properties *)

\* C1: when analyze has rendered, score is None if the pattern matches nowhere
\* in output_raw; otherwise it is the number the digit group of the leftmost
\* match denotes, or 100 if that number is larger. "87/100" gives 87,
\* "150 von 100" gives 100, a text without the pattern gives None.
C1_ScoreExtraction ==
    pc = "done" =>
        LET starts == MatchStarts(output_raw)
            first == CHOOSE i \in starts : \A j \in starts : i <= j
        IN /\ starts = {} => ~score.set
           /\ starts # {} =>
                 /\ score.set
                 /\ \A k \in 1..3 :
                       MatchesAt(output_raw, first, k) =>
                           score.val = Min(DigitsValue(output_raw, first, k), 100)
           /\ output_raw = Example87 => (score.set /\ score.val = 87)
           /\ output_raw = Example150 => (score.set /\ score.val = 100)
           /\ output_raw = ExampleNone => ~score.set

C1_Witness ==
    /\ pc = "done"
    /\ output_raw = Example150
    /\ score.set
    /\ score.val = 100

\* C2: the response shows the dash exactly when the pattern matches nowhere in
\* output_raw; when it matches, the response carries the parsed score, in
\* 0..100, a matched 0 included.
C2_DashOnlyWithoutMatch ==
    pc = "done" =>
        /\ response.score.dash <=> ~HasMatch(output_raw)
        /\ HasMatch(output_raw) =>
              (response.score.val \in 0..100 /\ response.score.val = score.val)

\* C3: extract_text runs only on an upload whose file name allowed_file accepts.
C3_ExtractOnlyAllowed ==
    Extracted => allowed_file(file.filename)

\* C4: whatever the payment state, a ready server accepts POST /analyze, a
\* request in flight goes on to extraction, prompt and completion, and a
\* request whose extraction and completion succeed ends with the result page.
C4_AnalyzeWithoutPayment ==
    /\ (boot = "ready" /\ ~Running) => \A f \in Uploads : ENABLED AnalyzeReceive(f)
    /\ pc = "extract" => ENABLED AnalyzeExtract
    /\ pc = "prompt" => ENABLED AnalyzeBuildPrompt
    /\ pc = "complete" => \A c \in CompletionReplies : ENABLED AnalyzeComplete(c)
    /\ pc = "done" =>
          /\ steps = <<"extract", "prompt", "complete", "render">>
          /\ response.status = 200
          /\ response.template = "result.html"
          /\ response.filename = file.filename

C4_Witness ==
    /\ pc = "done"
    /\ response.status = 200
    /\ sessions = 1
    /\ checkoutResp.status = 303
    /\ paid = FALSE

\* C5: every Session.create call asks for one line item, quantity 1, 500 minor
\* units, EUR, mode payment, with both redirect URLs starting with the
\* configured base URL; the response is a 303 to the session's URL if the
\* provider returned one, and no redirect if the provider failed.
C5_CheckoutRequest ==
    checkoutReq.set =>
        LET a == checkoutReq.args
            base == IF env.BASE_URL.set THEN env.BASE_URL.val ELSE DefaultBaseUrl
        IN /\ Len(a.line_items) = 1
           /\ a.line_items[1].quantity = 1
           /\ a.line_items[1].price_data.unit_amount = 500
           /\ a.line_items[1].price_data.currency = "eur"
           /\ a.mode = "payment"
           /\ StartsWith(a.success_url, base)
           /\ StartsWith(a.cancel_url, base)
           /\ checkoutReq.reply.ok =>
                 (checkoutResp.status = 303 /\ checkoutResp.location = checkoutReq.reply.url)
           /\ ~checkoutReq.reply.ok =>
                 (checkoutResp.status # 303 /\ checkoutResp.location = <<>>)

C5_Witness ==
    /\ checkoutReq.set
    /\ env.BASE_URL.set
    /\ checkoutReq.reply.ok
    /\ checkoutResp.status = 303

\* C6: with OPENAI_API_KEY or STRIPE_SECRET_KEY absent or empty, initialisation
\* never gets past its checks: no client, no stripe.api_key, never ready, no
\* route served. With both present it does not fail, whatever the other two
\* are, and an absent BASE_URL becomes http://127.0.0.1:8000.
C6_StartupFailsFast ==
    LET required == Truthy(env.OPENAI_API_KEY) /\ Truthy(env.STRIPE_SECRET_KEY)
    IN /\ ~required =>
             /\ boot \in {"env", "check_openai", "check_stripe", "failed"}
             /\ ~client.made
             /\ ~stripe_api_key.set
             /\ pc = "idle" /\ lastPage = NoPage /\ ~checkoutReq.set
       /\ (boot = "check_stripe" /\ ~Truthy(env.STRIPE_SECRET_KEY)) => ~ENABLED MakeClient
       /\ required => boot # "failed"
       /\ (boot # "env" /\ ~env.BASE_URL.set) =>
             (BASE_URL.set /\ BASE_URL.val = <<"http://127.0.0.1:8000">>)

C6_Witness ==
    /\ boot = "failed"
    /\ Truthy(env.OPENAI_API_KEY)
    /\ env.STRIPE_SECRET_KEY.set
    /\ ~Truthy(env.STRIPE_SECRET_KEY)
    /\ ~client.made

\* C7, as claimed: for a .txt upload extract_text does not raise and returns the
\* decoding of the bytes with a replacement character for each invalid one.
C7_InvalidBytesReplaced ==
    (Extracted /\ EndsWith(file.filename, ExtTxt)) =>
        /\ pc = "prompt"
        /\ text = decode(file.content.bytes, "replace").value

\* C7, amended: for a .txt upload extract_text does not raise and returns the
\* decoding of the bytes with the invalid ones dropped: the text, encoded again,
\* is the bytes with some left out, is all of them when they are well formed,
\* and holds as many characters as the bytes hold well-formed sequences.
C7_InvalidBytesDropped ==
    (Extracted /\ EndsWith(file.filename, ExtTxt)) =>
        LET marked == decode(file.content.bytes, "replace").value
        IN /\ pc = "prompt"
           /\ IsSubseq(Utf8Encode(text), file.content.bytes)
           /\ ~decode(file.content.bytes, "strict").raised =>
                 Utf8Encode(text) = file.content.bytes
           /\ Len(text) = Len(marked) - Count(65533, marked)
           /\ Count(65533, text) = 0

C7_Witness ==
    /\ Extracted
    /\ file.filename = NameTxt
    /\ file.content.bytes = <<195, 169, 255>>
    /\ text = <<233>>

\* C8, as claimed: for a PDF of N pages the text is the page texts in order
\* ("" for a page without text), newline-joined, with exactly N-1 joining
\* newlines; for a document it is the paragraphs in order, newline-joined.
C8_JoinedWithNMinusOneNewlines ==
    /\ (Extracted /\ EndsIn(file.filename, ExtPdf) /\ file.content.pdf.set) =>
          /\ pc = "prompt"
          /\ JoinedInOrder(text, PagesOf(file))
          /\ Count(10, text) - SumCount(10, PagesOf(file)) = Len(PagesOf(file)) - 1
    /\ (Extracted /\ EndsIn(file.filename, ExtDocx) /\ file.content.docx.set) =>
          /\ pc = "prompt"
          /\ JoinedInOrder(text, file.content.docx.val)

\* C8, amended: the same, with N-1 joining newlines for N >= 1 and none (the
\* empty text) for a PDF without pages.
C8_JoinedInPageOrder ==
    /\ (Extracted /\ EndsIn(file.filename, ExtPdf) /\ file.content.pdf.set) =>
          /\ pc = "prompt"
          /\ JoinedInOrder(text, PagesOf(file))
          /\ Count(10, text) - SumCount(10, PagesOf(file))
                = (IF Len(PagesOf(file)) = 0 THEN 0 ELSE Len(PagesOf(file)) - 1)
    /\ (Extracted /\ EndsIn(file.filename, ExtDocx) /\ file.content.docx.set) =>
          /\ pc = "prompt"
          /\ JoinedInOrder(text, file.content.docx.val)

C8_Witness ==
    /\ Extracted
    /\ file.filename = NamePdfUpper
    /\ file.content.pdf.set
    /\ Len(file.content.pdf.val) = 2
    /\ ~file.content.pdf.val[1].set
    /\ text = <<10, 97, 10>>

\* C9: allowed_file accepts a name iff it ends, letters compared without case,
\* in .pdf, .docx or .txt; extract_text takes the PDF branch for an accepted
\* name ending in .pdf, the document branch for one ending in .docx, and the
\* text branch for every other name.
C9_AllowListAndDispatch ==
    LET n == file.filename
        accepted == EndsIn(n, ExtPdf) \/ EndsIn(n, ExtDocx) \/ EndsIn(n, ExtTxt)
    IN /\ allowed_file(n) <=> accepted
       /\ Extracted =>
             /\ (allowed_file(n) /\ EndsIn(n, ExtPdf)) => BranchSeen = "pdf"
             /\ (allowed_file(n) /\ EndsIn(n, ExtDocx)) => BranchSeen = "docx"
             /\ ~(EndsIn(n, ExtPdf) \/ EndsIn(n, ExtDocx)) => BranchSeen = "text"

C9_Witness ==
    /\ Extracted
    /\ file.filename = <<"a", ".", "P", "d", "f">>
    /\ allowed_file(file.filename)
    /\ BranchSeen = "pdf"

\* C10: the steps of a request are a prefix of extract, prompt, complete,
\* render; the completion endpoint is called at most once; a request that
\* failed ran nothing after the failing step (a failed extraction: no
\* completion call at all) and answers with a server error carrying neither
\* rendered output nor score.
C10_OrderNoRetryNoPartial ==
    LET order == <<"extract", "prompt", "complete", "render">>
    IN /\ Len(steps) <= 4 /\ steps = SubSeq(order, 1, Len(steps))
       /\ calls <= 1
       /\ calls = Cardinality({i \in 1..Len(steps) : steps[i] = "complete"})
       /\ pc = "error" =>
             /\ Len(steps) \in {1, 3}
             /\ Len(steps) = 1 <=> extract_text(file).raised
             /\ Len(steps) = 1 => calls = 0
             /\ response.status = 500
             /\ response.output = NoHtml /\ output_html = NoHtml
             /\ response.score = Dash /\ ~score.set
             /\ ~ENABLED AnalyzeBuildPrompt
             /\ ~ENABLED AnalyzeRender
             /\ \A c \in CompletionReplies : ~ENABLED AnalyzeComplete(c)
       /\ extract_text(file).raised => pc \in {"idle", "extract", "error"}
       /\ response.status = 200 => (pc = "done" /\ Len(steps) = 4)

C10_Witness ==
    /\ pc = "error"
    /\ steps = <<"extract", "prompt", "complete">>
    /\ calls = 1
    /\ response.status = 500

====
